---- MODULE Spec2Model ----
(***************************************************************************)
(* Model of the SpiritMS Admin Commands Spider: the source-annotation      *)
(* scanner (main.py extract_commands and its helpers), the documentation   *)
(* scanner (docs_processor.py) and the reconciliation of the two           *)
(* (main.py fetch_new_commands / fetch_outdated_commands).                  *)
(*                                                                         *)
(* Text is modelled as a sequence of one-character strings, so that the    *)
(* substring tests, index searches, slices and splits of the Python code   *)
(* are computed, not assumed.  Python indices are 0-based; the helpers     *)
(* below take and return 0-based indices.                                  *)
(***************************************************************************)
EXTENDS Integers, Sequences, FiniteSets, TLC

VARIABLES
    file_contents,   \* extract_commands: the lines of the scanned source file
    index,           \* extract_commands: enumerate() index of the next line
    output_buffer,   \* extract_commands: class name -> {aliases, permission}
    commands,        \* main.py:322, the value extract_commands returned
    src_pc,          \* position inside extract_commands
    src_exc,         \* the exception that left extract_commands, if any
    src_log,         \* levels of the spirit_logger calls made by the scan
    doc_contents,    \* extract_raw_commands: the lines of the documentation file
    doc_index,       \* extract_raw_commands: number of lines the loop has consumed
    mode,            \* extract_raw_commands: the tier cursor
    raw,             \* extract_raw_commands: <<player, tester, intern, gamemaster, admin>>
    docs_aliases,    \* main.py:46-50/330: <<player, tester, intern, gamemaster, admin>>
    doc_pc,          \* position inside docs_processor.extract_commands
    new_commands,    \* main.py:333, the value fetch_new_commands returned
    dead_commands,   \* main.py:342, the value fetch_outdated_commands returned
    rec_targets,     \* fetch_new_commands: class name -> the list (1..5) it was compared with
    rec_pc           \* position in the comparison part of the main sequence

srcVars == <<file_contents, index, output_buffer, commands, src_pc, src_exc, src_log>>
docVars == <<doc_contents, doc_index, mode, raw, docs_aliases, doc_pc>>

recVars == <<new_commands, dead_commands, rec_targets, rec_pc>>

vars == <<srcVars, docVars, recVars>>

----------------------------------------------------------------------------
(* Bounds *)

MaxSrcLines == 3
MaxDocLines == 3
MaxCursorLines == 7
MaxDocEntries == 2

----------------------------------------------------------------------------
(* Python string primitives *)

Min2(a, b) == IF a < b THEN a ELSE b
Max2(a, b) == IF a > b THEN a ELSE b

\* s[a:b]; a negative bound counts from the end, both are clamped to the string
PySlice(s, a, b) ==
    LET n  == Len(s)
        lo == IF a < 0 THEN Max2(0, n + a) ELSE Min2(a, n)
        hi == IF b < 0 THEN Max2(0, n + b) ELSE Min2(b, n)
    IN  IF lo < hi THEN SubSeq(s, lo + 1, hi) ELSE <<>>

\* s[a:]
PySliceFrom(s, a) == PySlice(s, a, Len(s))

\* the 0-based positions at which sub occurs in s
Occurrences(sub, s) ==
    { i \in 0..(Len(s) - Len(sub)) : SubSeq(s, i + 1, i + Len(sub)) = sub }

\* sub in s
Contains(sub, s) == Occurrences(sub, s) # {}

\* s.index(sub): the lowest position; -1 stands for the ValueError it raises
IndexOf(sub, s) ==
    IF Occurrences(sub, s) = {} THEN -1
    ELSE CHOOSE i \in Occurrences(sub, s) : \A j \in Occurrences(sub, s) : i <= j

\* s.replace(c, "") for a one-character c
RemoveChar(c, s) == SelectSeq(s, LAMBDA x : x # c)

\* s.split(sep) for a non-empty sep
RECURSIVE Split(_, _)
Split(sep, s) ==
    LET i == IndexOf(sep, s)
    IN  IF i = -1 THEN <<s>>
        ELSE <<PySlice(s, 0, i)>> \o Split(sep, PySliceFrom(s, i + Len(sep)))

----------------------------------------------------------------------------
(* Text constants of the source scanner *)

CommandMarker == <<"@","C","o","m","m","a","n","d","(">>      \* "@Command("
ClassKeyword  == <<"c","l","a","s","s">>                      \* "class"
OpenBrace     == <<"{">>
CloseBrace    == <<"}">>
SpaceQuote    == <<" ","\"">>                                 \* ' "'
Comma         == <<",">>
CommaSpace    == <<","," ">>                                  \* ", "
Dot           == <<".">>
Space         == <<" ">>

Player     == <<"P","l","a","y","e","r">>
Tester     == <<"T","e","s","t","e","r">>
Intern     == <<"I","n","t","e","r","n">>
GameMaster == <<"G","a","m","e","M","a","s","t","e","r">>
Admin      == <<"A","d","m","i","n">>

TierNames == {Player, Tester, Intern, GameMaster, Admin}

----------------------------------------------------------------------------
(* Source lines the scanner is run on *)

NamesEq   == <<"n","a","m","e","s"," ","="," ">>               \* "names = "
ReqType   == <<","," ","r","e","q","u","i","r","e","d","T","y","p","e"," ","="," ",
               "A","c","c","o","u","n","t","T","y","p","e",".">>
                                              \* ", requiredType = AccountType."
CloseParen == <<")","\n">>
ClassHead == <<"p","u","b","l","i","c"," ","s","t","a","t","i","c"," ",
               "c","l","a","s","s"," ">>                       \* "public static class "
ClassTail == <<" ","e","x","t","e","n","d","s"," ","A","d","m","i","n",
               "C","o","m","m","a","n","d"," ","{","\n">>      \* " extends AdminCommand {\n"
Foo == <<"F","o","o">>
Bar == <<"B","a","r">>

Declaration(aliasText, tier) ==
    CommandMarker \o NamesEq \o aliasText \o ReqType \o tier \o CloseParen

\* @Command(names = {"a", "b"}, requiredType = AccountType.Admin)
DeclBraces    == Declaration(<<"{","\"","a","\"",","," ","\"","b","\"","}">>, Admin)
\* @Command(names = {"a","b"}, requiredType = AccountType.Tester)
DeclTight     == Declaration(<<"{","\"","a","\"",",","\"","b","\"","}">>, Tester)
\* @Command(names = "a", requiredType = AccountType.Player)
DeclSingle    == Declaration(<<"\"","a","\"">>, Player)
\* @Command(names = {"a", "b", requiredType = AccountType.GameMaster)
DeclNoClose   == Declaration(<<"{","\"","a","\"",","," ","\"","b","\"">>, GameMaster)
\* @Command(names = a, requiredType = AccountType.Admin)
DeclBare      == Declaration(<<"a">>, Admin)
\* @Command(names = {"a.b"}, requiredType = AccountType.Intern)
DeclDotted    == Declaration(<<"{","\"","a",".","b","\"","}">>, Intern)
\* public static class Foo extends AdminCommand {
ClassFoo      == ClassHead \o Foo \o ClassTail
ClassBar      == ClassHead \o Bar \o ClassTail
\* // staff only
CommentLine   == <<"/","/"," ","s","t","a","f","f"," ","o","n","l","y","\n">>

SrcLineSet ==
    { DeclBraces, DeclTight, DeclSingle, DeclNoClose, DeclBare, DeclDotted,
      ClassFoo, ClassBar, CommentLine }

SrcFiles == UNION { [1..n -> SrcLineSet] : n \in 0..MaxSrcLines }

----------------------------------------------------------------------------
(* main.py: the source-annotation scanner *)

\* contains_command(line)
contains_command(line) == Contains(CommandMarker, line)

\* extract_class_name(line): exc is "ValueError" when line.index("class") raises
extract_class_name(line) ==
    LET at == IndexOf(ClassKeyword, line)
    IN  IF at = -1
        THEN [exc |-> "ValueError", val |-> <<>>]
        ELSE [exc |-> "none",
              val |-> Split(Space, PySliceFrom(line, at + 6))[1]]

\* line[start:end].replace("\"", "").split(", ")
alias_list(line, start, end) ==
    Split(CommaSpace, RemoveChar("\"", PySlice(line, start, end)))

\* extract_aliases(line).  Without a brace, either index() may raise ValueError.
\* With an opening brace and no closing one the ValueError is caught and logged
\* (warning, then exception), `end` stays unbound and the return statement
\* raises UnboundLocalError.
extract_aliases(line) ==
    IF ~Contains(OpenBrace, line)
    THEN LET q == IndexOf(SpaceQuote, line)
             c == IndexOf(Comma, line)
         IN  IF q = -1 \/ c = -1
             THEN [exc |-> "ValueError", logged |-> <<>>, val |-> <<>>]
             ELSE [exc |-> "none", logged |-> <<>>,
                   val |-> alias_list(line, q + 1, c)]
    ELSE LET o == IndexOf(OpenBrace, line)
             c == IndexOf(CloseBrace, line)
         IN  IF c = -1
             THEN [exc |-> "UnboundLocalError",
                   logged |-> <<"warning", "exception">>, val |-> <<>>]
             ELSE [exc |-> "none", logged |-> <<>>,
                   val |-> alias_list(line, o + 1, c)]

\* the position extract_permission_level starts its slice after
permission_dot(line) == IndexOf(Dot, line)

\* extract_permission_level(line): line[line.index(".") + 1 : -2]
extract_permission_level(line) ==
    LET d == permission_dot(line)
    IN  IF d = -1
        THEN [exc |-> "ValueError", val |-> <<>>]
        ELSE [exc |-> "none", val |-> PySlice(line, d + 1, -2)]

\* the value bound to `commands` before extract_commands has returned
NotReturned == [kind |-> "unset", entries |-> <<>>]
\* Python's None, the value of a bare `return`
NoneValue   == [kind |-> "None", entries |-> <<>>]
\* a dict
DictValue(d) == [kind |-> "dict", entries |-> d]

\* output_buffer[name] = {aliases: a, permission: p}
PutEntry(buf, name, a, p) ==
    [n \in (DOMAIN buf) \cup {name} |->
        IF n = name THEN [aliases |-> a, permission |-> p] ELSE buf[n]]

\* what extract_commands does when it is entered: an empty file is logged at
\* debug level and the function returns without a value
empty_file_result == NoneValue

IdleSource ==
    /\ file_contents = <<>>
    /\ index = 0
    /\ output_buffer = <<>>
    /\ src_pc = "idle"
    /\ src_exc = "none"
    /\ src_log = <<>>

StartSource ==
    /\ file_contents \in SrcFiles
    /\ index = 0
    /\ output_buffer = <<>>
    /\ commands = NotReturned
    /\ src_pc = "enter"
    /\ src_exc = "none"
    /\ src_log = <<>>

\* extract_commands, lines 199-202
extract_commands_enter ==
    /\ src_pc = "enter"
    /\ IF file_contents = <<>>
       THEN /\ src_log' = Append(src_log, "debug")
            /\ commands' = empty_file_result
            /\ src_pc' = "returned"
       ELSE /\ src_pc' = "loop"
            /\ UNCHANGED <<src_log, commands>>
    /\ UNCHANGED <<file_contents, index, output_buffer, src_exc>>
    /\ UNCHANGED <<docVars, recVars>>

Raise(exc, logged) ==
    /\ src_pc' = "raised"
    /\ src_exc' = exc
    /\ src_log' = src_log \o logged
    /\ UNCHANGED <<file_contents, index, output_buffer, commands>>

\* extract_commands, lines 204-209: one iteration of the loop.  An exception
\* leaves the function; its frame, output_buffer included, is discarded, so the
\* half-built entry of the failing iteration is not kept.
extract_commands_step ==
    /\ src_pc = "loop"
    /\ index < Len(file_contents)
    /\ UNCHANGED <<docVars, recVars>>
    /\ LET line == file_contents[index + 1]
       IN  IF ~contains_command(line)
           THEN /\ index' = index + 1
                /\ UNCHANGED <<file_contents, output_buffer, commands, src_pc,
                               src_exc, src_log>>
           ELSE IF index + 2 > Len(file_contents)
           THEN Raise("IndexError", <<>>)
           ELSE LET name == extract_class_name(file_contents[index + 2])
                    al   == extract_aliases(line)
                    perm == extract_permission_level(line)
                IN  IF name.exc # "none" THEN Raise(name.exc, <<>>)
                    ELSE IF al.exc # "none" THEN Raise(al.exc, al.logged)
                    ELSE IF perm.exc # "none" THEN Raise(perm.exc, <<>>)
                    ELSE /\ output_buffer' =
                                PutEntry(output_buffer, name.val, al.val, perm.val)
                         /\ index' = index + 1
                         /\ UNCHANGED <<file_contents, commands, src_pc,
                                        src_exc, src_log>>

\* extract_commands, line 211
extract_commands_return ==
    /\ src_pc = "loop"
    /\ index = Len(file_contents)
    /\ commands' = DictValue(output_buffer)
    /\ src_pc' = "returned"
    /\ UNCHANGED <<file_contents, index, output_buffer, src_exc, src_log>>
    /\ UNCHANGED <<docVars, recVars>>

----------------------------------------------------------------------------
(* docs_processor.py: the documentation scanner *)

HeaderToken  == <<"#","#"," ">>                                \* "## "
PlayerHeader == <<"#","#"," ","P","l","a","y","e","r"," ","l","e","v","e","l"," ",
                  "c","o","m","m","a","n","d","s",":">>        \* "## Player level commands:"
OpenToken    == <<"*","*","!">>                                \* "**!"
CloseToken   == <<"*","*","\\","\n">>                          \* "**\\\n"

\* ## Player level commands:
PlayerHeaderLine == PlayerHeader \o <<"\n">>
\* ## Tester level commands:
TierHeaderLine   == <<"#","#"," ","T","e","s","t","e","r"," ","l","e","v","e","l"," ",
                      "c","o","m","m","a","n","d","s",":","\n">>
\* **!ban**\
MentionLine      == <<"*","*","!","b","a","n","*","*","\\","\n">>
\* **!ban**\ followed, in the same string, by: (staff)
MentionTrailing  == MentionLine \o <<"(","s","t","a","f","f",")">>
\* **!ban** bans a player
OpenOnlyLine     == <<"*","*","!","b","a","n","*","*"," ","b","a","n","s"," ","a"," ",
                      "p","l","a","y","e","r","\n">>
\* usage: **ban**\
CloseOnlyLine    == <<"u","s","a","g","e",":"," ","*","*","b","a","n","*","*","\\","\n">>
\* ## **!ban**\
HeaderMention    == HeaderToken \o MentionLine

DocLineSet ==
    { PlayerHeaderLine, TierHeaderLine, MentionLine, MentionTrailing,
      OpenOnlyLine, CloseOnlyLine, HeaderMention }

CursorLineSet == { PlayerHeaderLine, TierHeaderLine, MentionLine }

DocFiles    == UNION { [1..n -> DocLineSet] : n \in 0..MaxDocLines }
CursorFiles == UNION { [1..n -> CursorLineSet] : n \in 0..MaxCursorLines }

\* lines 30-33: the cursor after the header tests of one line
next_mode(m, line) ==
    LET advanced == IF Contains(HeaderToken, line) THEN m + 1 ELSE m
    IN  IF Contains(PlayerHeader, line) THEN 0 ELSE advanced

\* line 35: the test that selects a line
is_command_mention(line) ==
    Contains(OpenToken, line) /\ Contains(CloseToken, line)

\* bucket_of without the final else: a cursor past the fifth tier wraps around
bucket_of_wrapping(m) == (m % 5) + 1

\* lines 36-45: the list (1 = player ... 5 = admin) a selected line goes to
bucket_of(m) ==
    IF m = 0 THEN 1
    ELSE IF m = 1 THEN 2
    ELSE IF m = 2 THEN 3
    ELSE IF m = 3 THEN 4
    ELSE 5

\* strip_formatting(lines): [line[3:-4] for line in lines]
strip_formatting(lines) ==
    [k \in 1..Len(lines) |-> PySlice(lines[k], 3, -4)]

NoLists == << <<>>, <<>>, <<>>, <<>>, <<>> >>

IdleDocs ==
    /\ doc_contents = <<>>
    /\ doc_index = 0
    /\ mode = 0
    /\ raw = NoLists
    /\ doc_pc = "idle"

StartDocs(files) ==
    /\ doc_contents \in files
    /\ doc_index = 0
    /\ mode = 0
    /\ raw = NoLists
    /\ docs_aliases = NoLists
    /\ doc_pc = "loop"

\* extract_raw_commands, lines 29-45: one iteration of the loop
extract_raw_commands_step ==
    /\ doc_pc = "loop"
    /\ doc_index < Len(doc_contents)
    /\ LET line == doc_contents[doc_index + 1]
           m    == next_mode(mode, line)
       IN  /\ mode' = m
           /\ raw' = IF is_command_mention(line)
                     THEN [raw EXCEPT ![bucket_of(m)] = Append(@, line)]
                     ELSE raw
    /\ doc_index' = doc_index + 1
    /\ UNCHANGED <<doc_contents, docs_aliases, doc_pc>>
    /\ UNCHANGED <<file_contents, index, output_buffer, src_pc, src_exc, src_log>>
    /\ UNCHANGED <<commands, recVars>>

\* extract_raw_commands line 47, docs_processor.extract_commands lines 64-71
\* and the assignment of main.py:330
docs_extract_commands ==
    /\ doc_pc = "loop"
    /\ doc_index = Len(doc_contents)
    /\ docs_aliases' = [t \in 1..5 |-> strip_formatting(raw[t])]
    /\ doc_pc' = "done"
    /\ UNCHANGED <<doc_contents, doc_index, mode, raw>>
    /\ UNCHANGED <<file_contents, index, output_buffer, src_pc, src_exc, src_log>>
    /\ UNCHANGED <<commands, recVars>>

----------------------------------------------------------------------------
(* main.py: the reconciliation of source commands and documentation *)

Range(seq) == { seq[k] : k \in 1..Len(seq) }

\* get_target_by_permission_level(permission_level): which of the module-level
\* lists (1 = player ... 5 = admin) is returned; every value that is not one of
\* the first four names gets admin
target_index(permission_level) ==
    IF permission_level = Player THEN 1
    ELSE IF permission_level = Tester THEN 2
    ELSE IF permission_level = Intern THEN 3
    ELSE IF permission_level = GameMaster THEN 4
    ELSE 5

\* get_target_by_permission_level(permission_level), reading the lists
get_target_by_permission_level(permission_level, lists) ==
    lists[target_index(permission_level)]

\* command_not_in_docs requiring every alias to be documented
command_not_in_docs_all(command_aliases, permission_level) ==
    \E k \in 1..Len(command_aliases) : command_aliases[k] \notin Range(permission_level)

\* docs_processor.command_not_in_docs(command_aliases, permission_level)
command_not_in_docs(command_aliases, permission_level) ==
    ~\E k \in 1..Len(command_aliases) : command_aliases[k] \in Range(permission_level)

\* fetch_new_commands(extracted_commands): the entries kept in buffer
fetch_new_commands(extracted, lists) ==
    LET kept == { n \in DOMAIN extracted :
                    command_not_in_docs(
                        extracted[n].aliases,
                        get_target_by_permission_level(extracted[n].permission, lists)) }
    IN  [n \in kept |-> extracted[n]]

ReportTitle == <<"=","=","="," ","O","u","t","d","a","t","e","d"," ",
                 "A","l","i","a","s","e","s"," ","=","=","=">>
                                                \* "=== Outdated Aliases ==="
ReportIntro == <<"T","h","e","s","e"," ","a","r","e"," ","a","l","i","a","s","e","s"," ",
                 "i","n"," ","t","h","e"," ","S","p","i","r","i","t","S","u","i","t","e"," ",
                 "d","o","c","s"," ","t","h","a","t"," ","a","r","e"," ","n","o"," ",
                 "l","o","n","g","e","r"," ","p","a","r","t"," ","o","f"," ","t","h","e"," ",
                 "S","p","i","r","i","t","M","S"," ","r","e","p","o","s","i","t","o","r","y",
                 ".","\n">>
Separator   == <<"=","=","=","=","=","=","=","=","=","=","=","=","=","=","=","=","=","=",
                 "=","=","=">>
NoneLine    == <<"N","O","N","E","\n">>                    \* "NONE\n"
CommandsColon == <<" ","C","o","m","m","a","n","d","s",":","\n">>   \* " Commands:\n"

\* permission_text(number)
permission_text(number) ==
    IF number = 0 THEN Player \o CommandsColon
    ELSE IF number = 1 THEN Tester \o CommandsColon
    ELSE IF number = 2 THEN Intern \o CommandsColon
    ELSE IF number = 3 THEN GameMaster \o CommandsColon
    ELSE Admin \o CommandsColon

\* lines 294-296: the aliases of all commands; the list is only tested for
\* membership, so it is kept as a set
flattened_aliases(extracted) ==
    UNION { Range(extracted[n].aliases) : n \in DOMAIN extracted }

\* line 304 with only the aliases of the commands declared on the level itself
outdated_of_same_tier(number, extracted, lists) ==
    LET own == UNION { Range(extracted[n].aliases) :
                        n \in { m \in DOMAIN extracted :
                                  permission_text(number)
                                    = extracted[m].permission \o CommandsColon } }
    IN  SelectSeq(lists[number + 1], LAMBDA command : command \notin own)

\* line 304: buffer = [command for command in level if not command in aliases]
outdated_of(number, extracted, lists) ==
    SelectSeq(lists[number + 1],
              LAMBDA command : command \notin flattened_aliases(extracted))

\* lines 302-309 without the else branch
report_section_no_sentinel(number, extracted, lists) ==
    <<permission_text(number), Separator>> \o outdated_of(number, extracted, lists)

\* lines 302-309: what one iteration of the loop appends to output
report_section(number, extracted, lists) ==
    LET buffer == outdated_of(number, extracted, lists)
    IN  <<permission_text(number), Separator>> \o
        (IF buffer # <<>> THEN buffer ELSE <<NoneLine>>)

\* fetch_outdated_commands(extracted_commands)
fetch_outdated_commands(extracted, lists) ==
    <<ReportTitle, ReportIntro>>
        \o report_section(0, extracted, lists)
        \o report_section(1, extracted, lists)
        \o report_section(2, extracted, lists)
        \o report_section(3, extracted, lists)
        \o report_section(4, extracted, lists)

(* Inputs of the reconciliation *)

Owner == <<"O","w","n","e","r">>
Kick  == <<"k","i","c","k">>
Ban   == <<"b","a","n">>
Warp  == <<"w","a","r","p">>

ClassNames  == {Foo, Bar}
\* aliases the documentation lists are filled with
AliasValues == {Kick, Ban}
\* alias lists of the commands
AliasLists  == { <<Kick>>, <<Kick, Ban>>, <<Warp>> }
Permissions == TierNames \cup {Owner}

CommandEntries == [aliases : AliasLists, permission : Permissions]
CommandMappings == UNION { [names -> CommandEntries] : names \in SUBSET ClassNames }

\* the values of the five documentation lists that hold n aliases or fewer
RECURSIVE DocListsUpTo(_)
DocListsUpTo(n) ==
    IF n = 0 THEN { NoLists }
    ELSE LET fewer == DocListsUpTo(n - 1)
         IN  fewer \cup { [d EXCEPT ![t] = Append(@, x)] :
                            d \in fewer, t \in 1..5, x \in AliasValues }

\* the five documentation lists, holding at most MaxDocEntries aliases in all
DocLists == DocListsUpTo(MaxDocEntries)

IdleRecon ==
    /\ new_commands = <<>>
    /\ dead_commands = <<>>
    /\ rec_targets = <<>>
    /\ rec_pc = "idle"

\* the state at main.py:332: commands extracted, documentation lists assigned
StartRecon ==
    /\ commands \in { DictValue(m) : m \in CommandMappings }
    /\ docs_aliases \in DocLists
    /\ new_commands = <<>>
    /\ dead_commands = <<>>
    /\ rec_targets = <<>>
    /\ rec_pc = "start"

\* main.py:333; the function logs nothing and raises nothing
main_fetch_new_commands ==
    /\ rec_pc = "start"
    /\ new_commands' = fetch_new_commands(commands.entries, docs_aliases)
    /\ rec_targets' = [n \in DOMAIN commands.entries |->
                          target_index(commands.entries[n].permission)]
    /\ rec_pc' = "new_done"
    /\ UNCHANGED <<dead_commands, commands, docs_aliases>>
    /\ UNCHANGED <<file_contents, index, output_buffer, src_pc, src_exc, src_log>>
    /\ UNCHANGED <<doc_contents, doc_index, mode, raw, doc_pc>>

\* main.py:342
main_fetch_outdated_commands ==
    /\ rec_pc = "new_done"
    /\ dead_commands' = fetch_outdated_commands(commands.entries, docs_aliases)
    /\ rec_pc' = "done"
    /\ UNCHANGED <<new_commands, rec_targets, commands, docs_aliases>>
    /\ UNCHANGED <<file_contents, index, output_buffer, src_pc, src_exc, src_log>>
    /\ UNCHANGED <<doc_contents, doc_index, mode, raw, doc_pc>>

----------------------------------------------------------------------------
(* Specifications *)

InitSource == StartSource /\ docs_aliases = NoLists /\ IdleDocs /\ IdleRecon

NextSource ==
    \/ extract_commands_enter
    \/ extract_commands_step
    \/ extract_commands_return

\* the source scanner run on every file of SrcFiles
SpecSource == InitSource /\ [][NextSource]_vars

InitDocs == IdleSource /\ commands = NotReturned /\ StartDocs(DocFiles) /\ IdleRecon

InitCursor == IdleSource /\ commands = NotReturned /\ StartDocs(CursorFiles) /\ IdleRecon

NextDocs ==
    \/ extract_raw_commands_step
    \/ docs_extract_commands

\* the documentation scanner run on every file of DocFiles
SpecDocs == InitDocs /\ [][NextDocs]_vars

\* the documentation scanner run on long files of headers and mentions
SpecCursor == InitCursor /\ [][NextDocs]_vars

InitRecon == IdleSource /\ IdleDocs /\ StartRecon

NextRecon ==
    \/ main_fetch_new_commands
    \/ main_fetch_outdated_commands

\* the comparison of every command mapping with every documentation
SpecRecon == InitRecon /\ [][NextRecon]_vars

----------------------------------------------------------------------------
(* Claims about the source-annotation scanner *)

\* the declaration at position i (1-based) of file f is one the specification
\* calls malformed: its alias delimiters cannot be found, or the following line
\* does not exist or has no class keyword
AliasDelimitersMissing(line) ==
    IF Contains(OpenBrace, line)
    THEN ~Contains(CloseBrace, line)
    ELSE ~Contains(SpaceQuote, line) \/ ~Contains(Comma, line)

Malformed(f, i) ==
    /\ contains_command(f[i])
    /\ \/ AliasDelimitersMissing(f[i])
       \/ i + 1 > Len(f)
       \/ ~Contains(ClassKeyword, f[i + 1])

WellFormedNames(f) ==
    { extract_class_name(f[i + 1]).val :
        i \in { j \in 1..Len(f) : contains_command(f[j]) /\ ~Malformed(f, j) } }

ScanEnded == src_pc \in {"returned", "raised"}

\* C7: once the scan of a file holding a malformed declaration has ended, it
\* has not raised, it has logged a warning, and it has returned a mapping whose
\* entries are exactly those of the well-formed declarations.
C7_MalformedDeclarationSkipped ==
    (ScanEnded /\ \E i \in 1..Len(file_contents) : Malformed(file_contents, i))
        => /\ src_pc = "returned"
           /\ src_exc = "none"
           /\ \E k \in 1..Len(src_log) : src_log[k] = "warning"
           /\ commands.kind = "dict"
           /\ DOMAIN commands.entries = WellFormedNames(file_contents)

\* C8: extract_commands called with no lines returns a mapping with no
\* entries, not the absence of a value.
C8_EmptyInputEmptyMapping ==
    (src_pc = "returned" /\ file_contents = <<>>)
        => /\ commands.kind = "dict"
           /\ DOMAIN commands.entries = {}

\* the line has a brace-delimited alias list
HasBraceList(line) ==
    /\ Contains(OpenBrace, line)
    /\ Contains(CloseBrace, line)
    /\ IndexOf(OpenBrace, line) < IndexOf(CloseBrace, line)

RECURSIVE StripLeft(_)
StripLeft(s) ==
    IF s # <<>> /\ Head(s) = " " THEN StripLeft(Tail(s)) ELSE s

\* the comma-separated, quote-stripped tokens between the first opening and
\* the first closing brace, whatever whitespace follows a comma
BraceTokens(line) ==
    LET inner == PySlice(line, IndexOf(OpenBrace, line) + 1,
                               IndexOf(CloseBrace, line))
        parts == Split(Comma, inner)
    IN  [k \in 1..Len(parts) |-> RemoveChar("\"", StripLeft(parts[k]))]

\* the loop has just stored the entry of the declaration at line index
\* (1-based: file_contents[index]) without raising
JustStored ==
    /\ src_pc = "loop"
    /\ index >= 1
    /\ contains_command(file_contents[index])

StoredEntry ==
    output_buffer[extract_class_name(file_contents[index + 1]).val]

\* C9: the aliases stored for a declaration with a brace-delimited list are
\* exactly its comma-separated, quote-stripped tokens, in order, one element
\* per token, whatever whitespace follows each comma.
C9_BraceAliasesAreTheTokens ==
    (JustStored /\ HasBraceList(file_contents[index]))
        => StoredEntry.aliases = BraceTokens(file_contents[index])

\* the text after the final '.' of the line, without the closing ")\n"
AfterFinalDot(line) ==
    LET last == CHOOSE i \in Occurrences(Dot, line) :
                    \A j \in Occurrences(Dot, line) : j <= i
    IN  PySlice(line, last + 1, -2)

\* C10: the permission stored for a declaration that names one of the five
\* tiers after its last '.' is that tier name, also when an earlier part of
\* the line contains a '.'.
C10_PermissionIsTierAfterFinalDot ==
    (JustStored /\ Contains(Dot, file_contents[index])
                /\ AfterFinalDot(file_contents[index]) \in TierNames)
        => StoredEntry.permission = AfterFinalDot(file_contents[index])

----------------------------------------------------------------------------
(* Claims about the documentation scanner *)

\* the position of the last Player header among the first p lines of f (0: none)
LastPlayerHeader(f, p) ==
    LET at == { q \in 1..p : Contains(PlayerHeader, f[q]) }
    IN  IF at = {} THEN 0 ELSE CHOOSE q \in at : \A r \in at : r <= q

\* the number N of lines containing "## " among the first p lines of f that
\* come after the last Player header (from the start when there is none: the
\* cursor starts at tier 0)
HeadersSince(f, p) ==
    Cardinality({ q \in (LastPlayerHeader(f, p) + 1)..p : Contains(HeaderToken, f[q]) })

\* the tier (0..4) the claim assigns to line p of f
ClaimedTier(f, p) == Min2(HeadersSince(f, p), 4)

\* the command-mention lines among the first n lines of f that the claim puts
\* in the list of tier t, in document order
RECURSIVE ClaimedBucket(_, _, _)
ClaimedBucket(f, n, t) ==
    IF n = 0 THEN <<>>
    ELSE ClaimedBucket(f, n - 1, t) \o
         (IF is_command_mention(f[n]) /\ ClaimedTier(f, n) = t
          THEN <<f[n]>> ELSE <<>>)

\* C5: the cursor is 0 before the first line and after a Player header line;
\* after N lines containing "## " since the last Player header it is N, and
\* every command-mention line consumed so far is in the list of tier
\* min(N, 4), N taken at that line, so that lines past the fifth tier are in
\* the admin list.
C5_TierCursor ==
    /\ doc_index = 0 => mode = 0
    /\ (doc_index > 0 /\ Contains(PlayerHeader, doc_contents[doc_index])) => mode = 0
    /\ mode = HeadersSince(doc_contents, doc_index)
    /\ \A t \in 0..4 : raw[t + 1] = ClaimedBucket(doc_contents, doc_index, t)

\* C5 witness: a Player header, five further headers and then a mention, which
\* went to the admin list
C5_Witness ==
    /\ doc_index = 7
    /\ Contains(PlayerHeader, doc_contents[1])
    /\ mode = 5
    /\ raw[5] = <<MentionLine>>
    /\ doc_contents[7] = MentionLine

\* s ends with suffix
EndsWith(s, suffix) ==
    Len(s) >= Len(suffix) /\ SubSeq(s, Len(s) - Len(suffix) + 1, Len(s)) = suffix

----------------------------------------------------------------------------
(* Claims about the reconciliation *)

\* the documentation list (1..5) of a recognised permission tier
TierList(permission) ==
    CASE permission = Player     -> 1
      [] permission = Tester     -> 2
      [] permission = Intern     -> 3
      [] permission = GameMaster -> 4
      [] permission = Admin      -> 5

\* command n has an alias in the documentation list of its claimed tier
DocumentedInOwnTier(n) ==
    \E k \in 1..Len(commands.entries[n].aliases) :
        commands.entries[n].aliases[k]
            \in Range(docs_aliases[TierList(commands.entries[n].permission)])

HasTier(n) == commands.entries[n].permission \in TierNames

NewDone == rec_pc \in {"new_done", "done"}

\* C1: the mapping fetch_new_commands returns is a part of its input; a command
\* that claims one of the five tiers is in it exactly when none of its aliases
\* is in the documentation list of that tier; it is empty when every command
\* has an alias in its claimed tier's list, and it is the whole input when no
\* list contains an alias of any command.
C1_FlaggedIffNoAliasInOwnTier ==
    NewDone =>
        /\ DOMAIN new_commands \subseteq DOMAIN commands.entries
        /\ \A n \in DOMAIN new_commands : new_commands[n] = commands.entries[n]
        /\ \A n \in DOMAIN commands.entries :
              HasTier(n) => (n \in DOMAIN new_commands <=> ~DocumentedInOwnTier(n))
        /\ (\A n \in DOMAIN commands.entries : HasTier(n) /\ DocumentedInOwnTier(n))
              => DOMAIN new_commands = {}
        /\ (\A n \in DOMAIN commands.entries : \A t \in 1..5 :
                Range(commands.entries[n].aliases) \cap Range(docs_aliases[t]) = {})
              => new_commands = commands.entries

\* C1 witness: a command with two aliases of which only one is documented under
\* its tier is not flagged, while another command is
C1_Witness ==
    /\ NewDone
    /\ \E n \in DOMAIN commands.entries :
          /\ HasTier(n)
          /\ Len(commands.entries[n].aliases) = 2
          /\ DocumentedInOwnTier(n)
          /\ commands.entries[n].aliases[2]
                \notin Range(docs_aliases[TierList(commands.entries[n].permission)])
          /\ n \notin DOMAIN new_commands
    /\ \E n \in DOMAIN commands.entries : HasTier(n) /\ n \in DOMAIN new_commands

\* the position of the first line of report equal to text (0: none)
LinePosition(report, text) ==
    LET at == { k \in 1..Len(report) : report[k] = text }
    IN  IF at = {} THEN 0 ELSE CHOOSE k \in at : \A j \in at : k <= j

\* the lines of tier number's section of the report: those after its label and
\* separator, up to the next tier's label or the end of the report
Section(report, number) ==
    LET from  == LinePosition(report, permission_text(number)) + 2
        until == IF number = 4 THEN Len(report)
                 ELSE LinePosition(report, permission_text(number + 1)) - 1
    IN  SubSeq(report, from, until)

\* alias a is an alias of some command, whatever the command's tier
CurrentAlias(a) ==
    \E n \in DOMAIN commands.entries : \E k \in 1..Len(commands.entries[n].aliases) :
        commands.entries[n].aliases[k] = a

\* the documentation aliases of tier number that are no current alias, in
\* document order
StaleAliases(number) ==
    SelectSeq(docs_aliases[number + 1], LAMBDA a : ~CurrentAlias(a))

\* C2: each tier's section of the report lists exactly the documentation
\* aliases of that tier that are equal to no alias of any command, in document
\* order, and shows NONE when there is none.
C2_SectionsListStaleAliases ==
    rec_pc = "done" =>
        \A number \in 0..4 :
            /\ LinePosition(dead_commands, permission_text(number)) > 0
            /\ Section(dead_commands, number) =
                  IF StaleAliases(number) = <<>> THEN <<NoneLine>>
                  ELSE StaleAliases(number)

\* C2 witness: commands exist, and one section lists two different aliases in
\* document order
C2_Witness ==
    /\ rec_pc = "done"
    /\ \E number \in 0..4 :
          /\ Len(Section(dead_commands, number)) = 2
          /\ Section(dead_commands, number)[1] # Section(dead_commands, number)[2]
          /\ Section(dead_commands, number) = docs_aliases[number + 1]
    /\ DOMAIN commands.entries # {}

\* alias a is documented under tier number, no command of that tier declares
\* it, and a command of another tier does: it moved tiers in source
MovedAlias(a, number) ==
    /\ a \in Range(docs_aliases[number + 1])
    /\ \E n \in DOMAIN commands.entries :
          /\ a \in Range(commands.entries[n].aliases)
          /\ HasTier(n)
          /\ TierList(commands.entries[n].permission) # number + 1
    /\ \A n \in DOMAIN commands.entries :
          (HasTier(n) /\ TierList(commands.entries[n].permission) = number + 1)
              => a \notin Range(commands.entries[n].aliases)

\* C3 as stated: an alias that moved tiers is reported as outdated in the
\* section of its old tier.
C3_MovedAliasReportedOutdated ==
    rec_pc = "done" =>
        \A number \in 0..4 : \A a \in AliasValues :
            MovedAlias(a, number) => a \in Range(Section(dead_commands, number))

\* C3 as amended: an alias that moved tiers is not reported as outdated, neither
\* in the section of its old tier nor in any other section.
C3_MovedAliasNotReported ==
    rec_pc = "done" =>
        \A number \in 0..4 : \A a \in AliasValues :
            MovedAlias(a, number) =>
                \A other \in 0..4 : a \notin Range(Section(dead_commands, other))

\* C3 witness: the documentation lists an alias under a tier that no command of
\* that tier declares any more, while a command of another tier declares it
C3_Witness ==
    /\ rec_pc = "done"
    /\ \E number \in 0..4 : \E a \in AliasValues :
          /\ MovedAlias(a, number)
          /\ Section(dead_commands, number) = <<NoneLine>>

\* C4: once fetch_new_commands has run, a command whose permission is none of
\* the five tier names has not been compared with any tier's documentation
\* list: resolving its tier gave an error, not a list.
C4_UnknownPermissionNotDefaulted ==
    NewDone =>
        \A n \in DOMAIN commands.entries :
            ~HasTier(n) => rec_targets[n] \notin 1..5

====
